---- MODULE Spec2Model ----
(***************************************************************************)
(* mini-search: Tokenizer (src/src/tokenizer/mod.rs), InvertedIndex        *)
(* (src/src/indexer/mod.rs) and BM25Ranker (src/src/rank/mod.rs).          *)
(*                                                                         *)
(* A character is its Unicode scalar value, a number; a text, a word or a  *)
(* term is a sequence of characters.  L names the letters a to z.  Byte    *)
(* offsets are computed from len_utf8 of the characters.                   *)
(***************************************************************************)
EXTENDS Integers, Sequences, FiniteSets

VARIABLES
    pc,             \* tokenizer run: "start" before the call, "done" after
    text,           \* tokenizer run: the input text
    tokens,         \* tokenizer run: the Vec<Token> returned
    surface,        \* tokenizer run: the pre-stem word of each returned token
    built,          \* BM25Ranker::new has been called: the ranker owns the index
    index,          \* InvertedIndex.index : term -> Vec<Posting>
    doc_lengths,    \* BM25Ranker.doc_lengths : DocId -> usize
    avg_doc_length, \* BM25Ranker.avg_doc_length, the quotient num/den
    total_docs,     \* BM25Ranker.total_docs
    history,        \* the index_document calls so far, in order
    op,             \* the last operation called
    arg,            \* the query / term of the last read operation
    results         \* what the last read operation returned

tokVars == <<pc, text, tokens, surface>>
idxVars == <<built, index, doc_lengths, avg_doc_length, total_docs, history>>
callVars == <<op, arg, results>>
vars == <<pc, text, tokens, surface, built, index, doc_lengths, avg_doc_length,
          total_docs, history, op, arg, results>>

(***************************************************************************)
(* Bounds                                                                  *)
(***************************************************************************)
\* longest text, in characters, of a tokenizer run
MaxLen == 5
\* most index_document calls in one behaviour
MaxCalls == 3

\* HashMap::new()
EmptyMap == [x \in {} |-> 0]

(***************************************************************************)
(* Characters                                                              *)
(***************************************************************************)
L == [a |-> 97, b |-> 98, c |-> 99, d |-> 100, e |-> 101, f |-> 102,
      g |-> 103, h |-> 104, i |-> 105, j |-> 106, k |-> 107, l |-> 108,
      m |-> 109, n |-> 110, o |-> 111, p |-> 112, q |-> 113, r |-> 114,
      s |-> 115, t |-> 116, u |-> 117, v |-> 118, w |-> 119, x |-> 120,
      y |-> 121, z |-> 122]

\* ch lies in one of the closed ranges <<lo, hi>>
InRanges(ch, ranges) == \E r \in ranges : r[1] <= ch /\ ch <= r[2]

\* the Unicode property Alphabetic above U+007F, as of Unicode 15.0
AlphabeticRanges15 ==
    { <<170, 170>>, <<181, 181>>, <<186, 186>>, <<192, 214>>, <<216, 246>>,
      <<248, 705>>, <<710, 721>>, <<736, 740>>, <<748, 748>>, <<750, 750>>,
      <<837, 837>>, <<880, 884>>, <<886, 887>>, <<890, 893>>, <<895, 895>>,
      <<902, 902>>, <<904, 906>>, <<908, 908>>, <<910, 929>>, <<931, 1013>>,
      <<1015, 1153>>, <<1162, 1327>>, <<1329, 1366>>, <<1369, 1369>>,
      <<1376, 1416>>, <<1456, 1469>>, <<1471, 1471>>, <<1473, 1474>>,
      <<1476, 1477>>, <<1479, 1479>>, <<1488, 1514>>, <<1519, 1522>>,
      <<1552, 1562>>, <<1568, 1623>>, <<1625, 1631>>, <<1646, 1747>>,
      <<1749, 1756>>, <<1761, 1768>>, <<1773, 1775>>, <<1786, 1788>>,
      <<1791, 1791>>, <<1808, 1855>>, <<1869, 1969>>, <<1994, 2026>>,
      <<2036, 2037>>, <<2042, 2042>>, <<2048, 2071>>, <<2074, 2092>>,
      <<2112, 2136>>, <<2144, 2154>>, <<2160, 2183>>, <<2185, 2190>>,
      <<2208, 2249>>, <<2260, 2271>>, <<2275, 2281>>, <<2288, 2363>>,
      <<2365, 2380>>, <<2382, 2384>>, <<2389, 2403>>, <<2417, 2435>>,
      <<2437, 2444>>, <<2447, 2448>>, <<2451, 2472>>, <<2474, 2480>>,
      <<2482, 2482>>, <<2486, 2489>>, <<2493, 2500>>, <<2503, 2504>>,
      <<2507, 2508>>, <<2510, 2510>>, <<2519, 2519>>, <<2524, 2525>>,
      <<2527, 2531>>, <<2544, 2545>>, <<2556, 2556>>, <<2561, 2563>>,
      <<2565, 2570>>, <<2575, 2576>>, <<2579, 2600>>, <<2602, 2608>>,
      <<2610, 2611>>, <<2613, 2614>>, <<2616, 2617>>, <<2622, 2626>>,
      <<2631, 2632>>, <<2635, 2636>>, <<2641, 2641>>, <<2649, 2652>>,
      <<2654, 2654>>, <<2672, 2677>>, <<2689, 2691>>, <<2693, 2701>>,
      <<2703, 2705>>, <<2707, 2728>>, <<2730, 2736>>, <<2738, 2739>>,
      <<2741, 2745>>, <<2749, 2757>>, <<2759, 2761>>, <<2763, 2764>>,
      <<2768, 2768>>, <<2784, 2787>>, <<2809, 2812>>, <<2817, 2819>>,
      <<2821, 2828>>, <<2831, 2832>>, <<2835, 2856>>, <<2858, 2864>>,
      <<2866, 2867>>, <<2869, 2873>>, <<2877, 2884>>, <<2887, 2888>>,
      <<2891, 2892>>, <<2902, 2903>>, <<2908, 2909>>, <<2911, 2915>>,
      <<2929, 2929>>, <<2946, 2947>>, <<2949, 2954>>, <<2958, 2960>>,
      <<2962, 2965>>, <<2969, 2970>>, <<2972, 2972>>, <<2974, 2975>>,
      <<2979, 2980>>, <<2984, 2986>>, <<2990, 3001>>, <<3006, 3010>>,
      <<3014, 3016>>, <<3018, 3020>>, <<3024, 3024>>, <<3031, 3031>>,
      <<3072, 3084>>, <<3086, 3088>>, <<3090, 3112>>, <<3114, 3129>>,
      <<3133, 3140>>, <<3142, 3144>>, <<3146, 3148>>, <<3157, 3158>>,
      <<3160, 3162>>, <<3165, 3165>>, <<3168, 3171>>, <<3200, 3203>>,
      <<3205, 3212>>, <<3214, 3216>>, <<3218, 3240>>, <<3242, 3251>>,
      <<3253, 3257>>, <<3261, 3268>>, <<3270, 3272>>, <<3274, 3276>>,
      <<3285, 3286>>, <<3293, 3294>>, <<3296, 3299>>, <<3313, 3315>>,
      <<3328, 3340>>, <<3342, 3344>>, <<3346, 3386>>, <<3389, 3396>>,
      <<3398, 3400>>, <<3402, 3404>>, <<3406, 3406>>, <<3412, 3415>>,
      <<3423, 3427>>, <<3450, 3455>>, <<3457, 3459>>, <<3461, 3478>>,
      <<3482, 3505>>, <<3507, 3515>>, <<3517, 3517>>, <<3520, 3526>>,
      <<3535, 3540>>, <<3542, 3542>>, <<3544, 3551>>, <<3570, 3571>>,
      <<3585, 3642>>, <<3648, 3654>>, <<3661, 3661>>, <<3713, 3714>>,
      <<3716, 3716>>, <<3718, 3722>>, <<3724, 3747>>, <<3749, 3749>>,
      <<3751, 3769>>, <<3771, 3773>>, <<3776, 3780>>, <<3782, 3782>>,
      <<3789, 3789>>, <<3804, 3807>>, <<3840, 3840>>, <<3904, 3911>>,
      <<3913, 3948>>, <<3953, 3971>>, <<3976, 3991>>, <<3993, 4028>>,
      <<4096, 4150>>, <<4152, 4152>>, <<4155, 4159>>, <<4176, 4239>>,
      <<4250, 4253>>, <<4256, 4293>>, <<4295, 4295>>, <<4301, 4301>>,
      <<4304, 4346>>, <<4348, 4680>>, <<4682, 4685>>, <<4688, 4694>>,
      <<4696, 4696>>, <<4698, 4701>>, <<4704, 4744>>, <<4746, 4749>>,
      <<4752, 4784>>, <<4786, 4789>>, <<4792, 4798>>, <<4800, 4800>>,
      <<4802, 4805>>, <<4808, 4822>>, <<4824, 4880>>, <<4882, 4885>>,
      <<4888, 4954>>, <<4992, 5007>>, <<5024, 5109>>, <<5112, 5117>>,
      <<5121, 5740>>, <<5743, 5759>>, <<5761, 5786>>, <<5792, 5866>>,
      <<5870, 5880>>, <<5888, 5907>>, <<5919, 5939>>, <<5952, 5971>>,
      <<5984, 5996>>, <<5998, 6000>>, <<6002, 6003>>, <<6016, 6067>>,
      <<6070, 6088>>, <<6103, 6103>>, <<6108, 6108>>, <<6176, 6264>>,
      <<6272, 6314>>, <<6320, 6389>>, <<6400, 6430>>, <<6432, 6443>>,
      <<6448, 6456>>, <<6480, 6509>>, <<6512, 6516>>, <<6528, 6571>>,
      <<6576, 6601>>, <<6656, 6683>>, <<6688, 6750>>, <<6753, 6772>>,
      <<6823, 6823>>, <<6847, 6848>>, <<6860, 6862>>, <<6912, 6963>>,
      <<6965, 6979>>, <<6981, 6988>>, <<7040, 7081>>, <<7084, 7087>>,
      <<7098, 7141>>, <<7143, 7153>>, <<7168, 7222>>, <<7245, 7247>>,
      <<7258, 7293>>, <<7296, 7304>>, <<7312, 7354>>, <<7357, 7359>>,
      <<7401, 7404>>, <<7406, 7411>>, <<7413, 7414>>, <<7418, 7418>>,
      <<7424, 7615>>, <<7655, 7668>>, <<7680, 7957>>, <<7960, 7965>>,
      <<7968, 8005>>, <<8008, 8013>>, <<8016, 8023>>, <<8025, 8025>>,
      <<8027, 8027>>, <<8029, 8029>>, <<8031, 8061>>, <<8064, 8116>>,
      <<8118, 8124>>, <<8126, 8126>>, <<8130, 8132>>, <<8134, 8140>>,
      <<8144, 8147>>, <<8150, 8155>>, <<8160, 8172>>, <<8178, 8180>>,
      <<8182, 8188>>, <<8305, 8305>>, <<8319, 8319>>, <<8336, 8348>>,
      <<8450, 8450>>, <<8455, 8455>>, <<8458, 8467>>, <<8469, 8469>>,
      <<8473, 8477>>, <<8484, 8484>>, <<8486, 8486>>, <<8488, 8488>>,
      <<8490, 8493>>, <<8495, 8505>>, <<8508, 8511>>, <<8517, 8521>>,
      <<8526, 8526>>, <<8544, 8584>>, <<9398, 9449>>, <<11264, 11492>>,
      <<11499, 11502>>, <<11506, 11507>>, <<11520, 11557>>, <<11559, 11559>>,
      <<11565, 11565>>, <<11568, 11623>>, <<11631, 11631>>, <<11648, 11670>>,
      <<11680, 11686>>, <<11688, 11694>>, <<11696, 11702>>, <<11704, 11710>>,
      <<11712, 11718>>, <<11720, 11726>>, <<11728, 11734>>, <<11736, 11742>>,
      <<11744, 11775>>, <<11823, 11823>>, <<12293, 12295>>, <<12321, 12329>>,
      <<12337, 12341>>, <<12344, 12348>>, <<12353, 12438>>, <<12445, 12447>>,
      <<12449, 12538>>, <<12540, 12543>>, <<12549, 12591>>, <<12593, 12686>>,
      <<12704, 12735>>, <<12784, 12799>>, <<13312, 19903>>, <<19968, 42124>>,
      <<42192, 42237>>, <<42240, 42508>>, <<42512, 42527>>, <<42538, 42539>>,
      <<42560, 42606>>, <<42612, 42619>>, <<42623, 42735>>, <<42775, 42783>>,
      <<42786, 42888>>, <<42891, 42954>>, <<42960, 42961>>, <<42963, 42963>>,
      <<42965, 42969>>, <<42994, 43013>>, <<43015, 43047>>, <<43072, 43123>>,
      <<43136, 43203>>, <<43205, 43205>>, <<43250, 43255>>, <<43259, 43259>>,
      <<43261, 43263>>, <<43274, 43306>>, <<43312, 43346>>, <<43360, 43388>>,
      <<43392, 43442>>, <<43444, 43455>>, <<43471, 43471>>, <<43488, 43503>>,
      <<43514, 43518>>, <<43520, 43574>>, <<43584, 43597>>, <<43616, 43638>>,
      <<43642, 43710>>, <<43712, 43712>>, <<43714, 43714>>, <<43739, 43741>>,
      <<43744, 43759>>, <<43762, 43765>>, <<43777, 43782>>, <<43785, 43790>>,
      <<43793, 43798>>, <<43808, 43814>>, <<43816, 43822>>, <<43824, 43866>>,
      <<43868, 43881>>, <<43888, 44010>>, <<44032, 55203>>, <<55216, 55238>>,
      <<55243, 55291>>, <<63744, 64109>>, <<64112, 64217>>, <<64256, 64262>>,
      <<64275, 64279>>, <<64285, 64296>>, <<64298, 64310>>, <<64312, 64316>>,
      <<64318, 64318>>, <<64320, 64321>>, <<64323, 64324>>, <<64326, 64433>>,
      <<64467, 64829>>, <<64848, 64911>>, <<64914, 64967>>, <<65008, 65019>>,
      <<65136, 65140>>, <<65142, 65276>>, <<65313, 65338>>, <<65345, 65370>>,
      <<65382, 65470>>, <<65474, 65479>>, <<65482, 65487>>, <<65490, 65495>>,
      <<65498, 65500>>, <<65536, 65547>>, <<65549, 65574>>, <<65576, 65594>>,
      <<65596, 65597>>, <<65599, 65613>>, <<65616, 65629>>, <<65664, 65786>>,
      <<65856, 65908>>, <<66176, 66204>>, <<66208, 66256>>, <<66304, 66335>>,
      <<66349, 66378>>, <<66384, 66426>>, <<66432, 66461>>, <<66464, 66499>>,
      <<66504, 66511>>, <<66513, 66517>>, <<66560, 66717>>, <<66736, 66771>>,
      <<66776, 66811>>, <<66816, 66855>>, <<66864, 66915>>, <<66928, 66938>>,
      <<66940, 66954>>, <<66956, 66962>>, <<66964, 66965>>, <<66967, 66977>>,
      <<66979, 66993>>, <<66995, 67001>>, <<67003, 67004>>, <<67072, 67382>>,
      <<67392, 67413>>, <<67424, 67431>>, <<67456, 67461>>, <<67463, 67504>>,
      <<67506, 67514>>, <<67584, 67589>>, <<67592, 67592>>, <<67594, 67637>>,
      <<67639, 67640>>, <<67644, 67644>>, <<67647, 67669>>, <<67680, 67702>>,
      <<67712, 67742>>, <<67808, 67826>>, <<67828, 67829>>, <<67840, 67861>>,
      <<67872, 67897>>, <<67968, 68023>>, <<68030, 68031>>, <<68096, 68099>>,
      <<68101, 68102>>, <<68108, 68115>>, <<68117, 68119>>, <<68121, 68149>>,
      <<68192, 68220>>, <<68224, 68252>>, <<68288, 68295>>, <<68297, 68324>>,
      <<68352, 68405>>, <<68416, 68437>>, <<68448, 68466>>, <<68480, 68497>>,
      <<68608, 68680>>, <<68736, 68786>>, <<68800, 68850>>, <<68864, 68903>>,
      <<69248, 69289>>, <<69291, 69292>>, <<69296, 69297>>, <<69376, 69404>>,
      <<69415, 69415>>, <<69424, 69445>>, <<69488, 69505>>, <<69552, 69572>>,
      <<69600, 69622>>, <<69632, 69701>>, <<69745, 69749>>, <<69760, 69816>>,
      <<69826, 69826>>, <<69840, 69864>>, <<69888, 69938>>, <<69956, 69959>>,
      <<69968, 70002>>, <<70006, 70006>>, <<70016, 70079>>, <<70081, 70084>>,
      <<70094, 70095>>, <<70106, 70106>>, <<70108, 70108>>, <<70144, 70161>>,
      <<70163, 70196>>, <<70199, 70199>>, <<70206, 70209>>, <<70272, 70278>>,
      <<70280, 70280>>, <<70282, 70285>>, <<70287, 70301>>, <<70303, 70312>>,
      <<70320, 70376>>, <<70400, 70403>>, <<70405, 70412>>, <<70415, 70416>>,
      <<70419, 70440>>, <<70442, 70448>>, <<70450, 70451>>, <<70453, 70457>>,
      <<70461, 70468>>, <<70471, 70472>>, <<70475, 70476>>, <<70480, 70480>>,
      <<70487, 70487>>, <<70493, 70499>>, <<70656, 70721>>, <<70723, 70725>>,
      <<70727, 70730>>, <<70751, 70753>>, <<70784, 70849>>, <<70852, 70853>>,
      <<70855, 70855>>, <<71040, 71093>>, <<71096, 71102>>, <<71128, 71133>>,
      <<71168, 71230>>, <<71232, 71232>>, <<71236, 71236>>, <<71296, 71349>>,
      <<71352, 71352>>, <<71424, 71450>>, <<71453, 71466>>, <<71488, 71494>>,
      <<71680, 71736>>, <<71840, 71903>>, <<71935, 71942>>, <<71945, 71945>>,
      <<71948, 71955>>, <<71957, 71958>>, <<71960, 71989>>, <<71991, 71992>>,
      <<71995, 71996>>, <<71999, 72002>>, <<72096, 72103>>, <<72106, 72151>>,
      <<72154, 72159>>, <<72161, 72161>>, <<72163, 72164>>, <<72192, 72242>>,
      <<72245, 72254>>, <<72272, 72343>>, <<72349, 72349>>, <<72368, 72440>>,
      <<72704, 72712>>, <<72714, 72758>>, <<72760, 72766>>, <<72768, 72768>>,
      <<72818, 72847>>, <<72850, 72871>>, <<72873, 72886>>, <<72960, 72966>>,
      <<72968, 72969>>, <<72971, 73014>>, <<73018, 73018>>, <<73020, 73021>>,
      <<73023, 73025>>, <<73027, 73027>>, <<73030, 73031>>, <<73056, 73061>>,
      <<73063, 73064>>, <<73066, 73102>>, <<73104, 73105>>, <<73107, 73110>>,
      <<73112, 73112>>, <<73440, 73462>>, <<73472, 73488>>, <<73490, 73530>>,
      <<73534, 73536>>, <<73648, 73648>>, <<73728, 74649>>, <<74752, 74862>>,
      <<74880, 75075>>, <<77712, 77808>>, <<77824, 78895>>, <<78913, 78918>>,
      <<82944, 83526>>, <<92160, 92728>>, <<92736, 92766>>, <<92784, 92862>>,
      <<92880, 92909>>, <<92928, 92975>>, <<92992, 92995>>, <<93027, 93047>>,
      <<93053, 93071>>, <<93760, 93823>>, <<93952, 94026>>, <<94031, 94087>>,
      <<94095, 94111>>, <<94176, 94177>>, <<94179, 94179>>, <<94192, 94193>>,
      <<94208, 100343>>, <<100352, 101589>>, <<101632, 101640>>,
      <<110576, 110579>>, <<110581, 110587>>, <<110589, 110590>>,
      <<110592, 110882>>, <<110898, 110898>>, <<110928, 110930>>,
      <<110933, 110933>>, <<110948, 110951>>, <<110960, 111355>>,
      <<113664, 113770>>, <<113776, 113788>>, <<113792, 113800>>,
      <<113808, 113817>>, <<113822, 113822>>, <<119808, 119892>>,
      <<119894, 119964>>, <<119966, 119967>>, <<119970, 119970>>,
      <<119973, 119974>>, <<119977, 119980>>, <<119982, 119993>>,
      <<119995, 119995>>, <<119997, 120003>>, <<120005, 120069>>,
      <<120071, 120074>>, <<120077, 120084>>, <<120086, 120092>>,
      <<120094, 120121>>, <<120123, 120126>>, <<120128, 120132>>,
      <<120134, 120134>>, <<120138, 120144>>, <<120146, 120485>>,
      <<120488, 120512>>, <<120514, 120538>>, <<120540, 120570>>,
      <<120572, 120596>>, <<120598, 120628>>, <<120630, 120654>>,
      <<120656, 120686>>, <<120688, 120712>>, <<120714, 120744>>,
      <<120746, 120770>>, <<120772, 120779>>, <<122624, 122654>>,
      <<122661, 122666>>, <<122880, 122886>>, <<122888, 122904>>,
      <<122907, 122913>>, <<122915, 122916>>, <<122918, 122922>>,
      <<122928, 122989>>, <<123023, 123023>>, <<123136, 123180>>,
      <<123191, 123197>>, <<123214, 123214>>, <<123536, 123565>>,
      <<123584, 123627>>, <<124112, 124139>>, <<124896, 124902>>,
      <<124904, 124907>>, <<124909, 124910>>, <<124912, 124926>>,
      <<124928, 125124>>, <<125184, 125251>>, <<125255, 125255>>,
      <<125259, 125259>>, <<126464, 126467>>, <<126469, 126495>>,
      <<126497, 126498>>, <<126500, 126500>>, <<126503, 126503>>,
      <<126505, 126514>>, <<126516, 126519>>, <<126521, 126521>>,
      <<126523, 126523>>, <<126530, 126530>>, <<126535, 126535>>,
      <<126537, 126537>>, <<126539, 126539>>, <<126541, 126543>>,
      <<126545, 126546>>, <<126548, 126548>>, <<126551, 126551>>,
      <<126553, 126553>>, <<126555, 126555>>, <<126557, 126557>>,
      <<126559, 126559>>, <<126561, 126562>>, <<126564, 126564>>,
      <<126567, 126570>>, <<126572, 126578>>, <<126580, 126583>>,
      <<126585, 126588>>, <<126590, 126590>>, <<126592, 126601>>,
      <<126603, 126619>>, <<126625, 126627>>, <<126629, 126633>>,
      <<126635, 126651>>, <<127280, 127305>>, <<127312, 127337>>,
      <<127344, 127369>>, <<131072, 173791>>, <<173824, 177977>>,
      <<177984, 178205>>, <<178208, 183969>>, <<183984, 191456>>,
      <<194560, 195101>>, <<196608, 201546>>, <<201552, 205743>> }

\* the code points that became Alphabetic after Unicode 15.0: the combining
\* Latin letters U+0363 to U+036F and U+1DD3 to U+1DE6, and the letters and
\* marks of the scripts and CJK extensions added in 15.1, 16.0 and 17.0; with
\* AlphabeticRanges15 and the 52 ASCII letters they are the 147,421 characters
\* char::is_alphabetic accepts
AlphabeticRangesLater ==
    { <<867, 879>>, <<2191, 2191>>, <<2199, 2199>>, <<3164, 3164>>,
      <<3292, 3292>>, <<7305, 7306>>, <<7635, 7654>>, <<42955, 42957>>,
      <<42958, 42959>>, <<42962, 42962>>, <<42964, 42964>>, <<42970, 42972>>,
      <<42993, 42993>>, <<67008, 67059>>, <<67904, 67929>>, <<68938, 68965>>,
      <<68969, 68969>>, <<68975, 68997>>, <<69314, 69316>>, <<69317, 69319>>,
      <<69370, 69371>>, <<69372, 69372>>, <<70528, 70537>>, <<70539, 70539>>,
      <<70542, 70542>>, <<70544, 70581>>, <<70583, 70592>>, <<70594, 70594>>,
      <<70597, 70597>>, <<70599, 70602>>, <<70604, 70605>>, <<70609, 70609>>,
      <<70611, 70611>>, <<72544, 72551>>, <<72640, 72672>>, <<73136, 73179>>,
      <<78944, 82938>>, <<90368, 90414>>, <<93504, 93548>>, <<93856, 93880>>,
      <<93883, 93907>>, <<94194, 94198>>, <<100344, 100351>>,
      <<101631, 101631>>, <<101641, 101662>>, <<101760, 101874>>,
      <<124368, 124397>>, <<124400, 124400>>, <<124608, 124638>>,
      <<124640, 124661>>, <<124670, 124671>>, <<177978, 177983>>,
      <<183970, 183981>>, <<191472, 192093>>, <<205744, 210041>> }

\* the table behind char::is_alphabetic for the characters above U+007F
AlphabeticRanges == AlphabeticRanges15 \cup AlphabeticRangesLater

\* the characters of the table
AlphabeticChars == UNION {r[1]..r[2] : r \in AlphabeticRanges}

\* the Unicode property White_Space: U+0009 to U+000D, the space, U+0085,
\* U+00A0, U+1680, U+2000 to U+200A, U+2028, U+2029, U+202F, U+205F, U+3000
WhiteSpaceRanges ==
    { <<9, 13>>, <<32, 32>>, <<133, 133>>, <<160, 160>>, <<5760, 5760>>,
      <<8192, 8202>>, <<8232, 8233>>, <<8239, 8239>>, <<8287, 8287>>,
      <<12288, 12288>> }

\* ! to /, : to @, [ to `, { to ~
AsciiPunctuationRanges == { <<33, 47>>, <<58, 64>>, <<91, 96>>, <<123, 126>> }

\* char::is_alphabetic : A-Z and a-z, or above U+007F and in the table
is_alphabetic(ch) ==
    \/ (65 <= ch /\ ch <= 90)
    \/ (97 <= ch /\ ch <= 122)
    \/ (ch > 127 /\ ch \in AlphabeticChars)

\* char::is_whitespace
is_whitespace(ch) == InRanges(ch, WhiteSpaceRanges)

\* char::is_ascii_punctuation
is_ascii_punctuation(ch) == InRanges(ch, AsciiPunctuationRanges)

\* char::to_ascii_lowercase: only A-Z change
to_ascii_lowercase(ch) == IF 65 <= ch /\ ch <= 90 THEN ch + 32 ELSE ch

\* char::len_utf8
len_utf8(ch) ==
    IF ch < 128 THEN 1
    ELSE IF ch < 2048 THEN 2
    ELSE IF ch < 65536 THEN 3
    ELSE 4

RECURSIVE ByteLen(_)
\* str::len : the length in bytes
ByteLen(s) == IF s = <<>> THEN 0 ELSE len_utf8(Head(s)) + ByteLen(Tail(s))

\* the byte index char_indices() yields for the i-th character (1-based i)
ByteIndex(s, i) == ByteLen(SubSeq(s, 1, i - 1))

(***************************************************************************)
(* Stemmer::new("english").stem : the Snowball English (Porter2) stemmer.  *)
(* A word reaches it without an apostrophe (ASCII punctuation ends a word) *)
(* and without A-Z (to_ascii_lowercase), so the apostrophe rules of the    *)
(* prelude and of Step 1a never apply and are left out.  A y that the      *)
(* prelude turns into a consonant is written Y, as in the algorithm.       *)
(***************************************************************************)
\* the consonant Y of the prelude
UpperY == 89

Vowels == {L.a, L.e, L.i, L.o, L.u, L.y}

\* the consonants that may end a short syllable: not w, x or Y
Vowels_WXY == Vowels \cup {L.w, L.x, UpperY}

\* the letters before which li is a suffix
valid_LI == {L.c, L.d, L.e, L.g, L.h, L.k, L.m, L.n, L.r, L.t}

StartsWith(w, pre) ==
    /\ Len(w) >= Len(pre)
    /\ SubSeq(w, 1, Len(pre)) = pre

EndsWith(w, suf) ==
    /\ Len(w) >= Len(suf)
    /\ SubSeq(w, Len(w) - Len(suf) + 1, Len(w)) = suf

DropLast(w, n) == SubSeq(w, 1, Len(w) - n)

\* w with its suffix suf replaced by to
ReplaceSuffix(w, suf, to) == DropLast(w, Len(suf)) \o to

\* the row of a non-empty set of rows with the longest suffix
LongestRow(found) ==
    CHOOSE row \in found : \A other \in found : Len(other[1]) <= Len(row[1])

AmongFound(found) == IF found = {} THEN <<>> ELSE LongestRow(found)

\* among: the row <<suffix, replacement>> with the longest suffix that w ends
\* with; <<>> when w ends with none
Among(w, table) == AmongFound({row \in table : EndsWith(w, row[1])})

\* exception1: the words stemmed by table alone
exception1 ==
    { <<<<L.s, L.k, L.i, L.s>>, <<L.s, L.k, L.i>>>>, <<<<L.s, L.k, L.i, L.e, L.s>>, <<L.s, L.k, L.y>>>>,
      <<<<L.d, L.y, L.i, L.n, L.g>>, <<L.d, L.i, L.e>>>>,
      <<<<L.l, L.y, L.i, L.n, L.g>>, <<L.l, L.i, L.e>>>>,
      <<<<L.t, L.y, L.i, L.n, L.g>>, <<L.t, L.i, L.e>>>>,
      <<<<L.i, L.d, L.l, L.y>>, <<L.i, L.d, L.l>>>>, <<<<L.g, L.e, L.n, L.t, L.l, L.y>>, <<L.g, L.e, L.n, L.t, L.l>>>>,
      <<<<L.u, L.g, L.l, L.y>>, <<L.u, L.g, L.l, L.i>>>>,
      <<<<L.e, L.a, L.r, L.l, L.y>>, <<L.e, L.a, L.r, L.l, L.i>>>>,
      <<<<L.o, L.n, L.l, L.y>>, <<L.o, L.n, L.l, L.i>>>>,
      <<<<L.s, L.i, L.n, L.g, L.l, L.y>>, <<L.s, L.i, L.n, L.g, L.l>>>>,
      <<<<L.s, L.k, L.y>>, <<L.s, L.k, L.y>>>>, <<<<L.n, L.e, L.w, L.s>>, <<L.n, L.e, L.w, L.s>>>>,
      <<<<L.h, L.o, L.w, L.e>>, <<L.h, L.o, L.w, L.e>>>>,
      <<<<L.a, L.t, L.l, L.a, L.s>>, <<L.a, L.t, L.l, L.a, L.s>>>>,
      <<<<L.c, L.o, L.s, L.m, L.o, L.s>>, <<L.c, L.o, L.s, L.m, L.o, L.s>>>>,
      <<<<L.b, L.i, L.a, L.s>>, <<L.b, L.i, L.a, L.s>>>>,
      <<<<L.a, L.n, L.d, L.e, L.s>>, <<L.a, L.n, L.d, L.e, L.s>>>> }

\* exception2: the words left as they are after Step 1a
exception2 ==
    { <<L.i, L.n, L.n, L.i, L.n, L.g>>, <<L.o, L.u, L.t, L.i, L.n, L.g>>,
      <<L.c, L.a, L.n, L.n, L.i, L.n, L.g>>, <<L.h, L.e, L.r, L.r, L.i, L.n, L.g>>,
      <<L.e, L.a, L.r, L.r, L.i, L.n, L.g>>, <<L.p, L.r, L.o, L.c, L.e, L.e, L.d>>,
      <<L.e, L.x, L.c, L.e, L.e, L.d>>, <<L.s, L.u, L.c, L.c, L.e, L.e, L.d>> }

RECURSIVE Prelude(_, _)
\* prelude: an initial y, and a y after a vowel, become Y; the first i
\* characters of w are done
Prelude(w, i) ==
    IF i = Len(w) THEN w
    ELSE IF w[i + 1] = L.y /\ (i = 0 \/ w[i] \in Vowels)
    THEN Prelude([w EXCEPT ![i + 1] = UpperY], i + 1)
    ELSE Prelude(w, i + 1)

\* postlude: Y becomes y again
Postlude(w) == [i \in 1..Len(w) |-> IF w[i] = UpperY THEN L.y ELSE w[i]]

\* the number of characters up to and including the first non-vowel that
\* follows a vowel, searching from character from + 1; Len(w) without one
RegionAfter(w, from) ==
    LET hits == {i \in (from + 2)..Len(w) :
                    w[i] \notin Vowels /\ w[i - 1] \in Vowels}
    IN IF hits = {} THEN Len(w)
       ELSE CHOOSE i \in hits : \A j \in hits : i <= j

\* mark_regions: p1, the number of characters before R1
MarkP1(w) ==
    IF StartsWith(w, <<L.g, L.e, L.n, L.e, L.r>>) THEN 5
    ELSE IF StartsWith(w, <<L.c, L.o, L.m, L.m, L.u, L.n>>) THEN 6
    ELSE IF StartsWith(w, <<L.a, L.r, L.s, L.e, L.n>>) THEN 5
    ELSE RegionAfter(w, 0)

\* mark_regions: p2, the number of characters before R2
MarkP2(w) == RegionAfter(w, MarkP1(w))

\* shortv: w ends in a short syllable
shortv(w) ==
    \/ /\ Len(w) >= 3
       /\ w[Len(w)] \notin Vowels_WXY
       /\ w[Len(w) - 1] \in Vowels
       /\ w[Len(w) - 2] \notin Vowels
    \/ /\ Len(w) = 2
       /\ w[2] \notin Vowels
       /\ w[1] \in Vowels

\* Step 1a: sses -> ss; ied, ies -> i after more than one letter, else ie;
\* us, ss stay; s is deleted when a vowel precedes it other than immediately
\* before it
Step_1a(w) ==
    IF EndsWith(w, <<L.s, L.s, L.e, L.s>>) THEN DropLast(w, 2)
    ELSE IF EndsWith(w, <<L.i, L.e, L.d>>) \/ EndsWith(w, <<L.i, L.e, L.s>>)
         THEN IF Len(w) > 4 THEN DropLast(w, 2) ELSE DropLast(w, 1)
    ELSE IF EndsWith(w, <<L.u, L.s>>) \/ EndsWith(w, <<L.s, L.s>>) THEN w
    ELSE IF EndsWith(w, <<L.s>>)
         THEN IF \E i \in 1..(Len(w) - 2) : w[i] \in Vowels
              THEN DropLast(w, 1) ELSE w
    ELSE w

Step_1b_among ==
    { <<<<L.e, L.e, L.d>>, <<L.e, L.e>>>>, <<<<L.e, L.e, L.d, L.l, L.y>>, <<L.e, L.e>>>>,
      <<<<L.e, L.d>>, <<>>>>, <<<<L.e, L.d, L.l, L.y>>, <<>>>>, <<<<L.i, L.n, L.g>>, <<>>>>,
      <<<<L.i, L.n, L.g, L.l, L.y>>, <<>>>> }

Step_1b_doubles ==
    { <<L.b, L.b>>, <<L.d, L.d>>, <<L.f, L.f>>, <<L.g, L.g>>, <<L.m, L.m>>,
      <<L.n, L.n>>, <<L.p, L.p>>, <<L.r, L.r>>, <<L.t, L.t>> }

\* Step 1b, after ed, edly, ing or ingly was deleted: the stem gets an e after
\* at, bl, iz, loses one letter of a double, or gets an e when it is short
Step_1b_stem(stem, p1) ==
    IF \/ EndsWith(stem, <<L.a, L.t>>)
       \/ EndsWith(stem, <<L.b, L.l>>)
       \/ EndsWith(stem, <<L.i, L.z>>)
    THEN Append(stem, L.e)
    ELSE IF \E d \in Step_1b_doubles : EndsWith(stem, d)
    THEN DropLast(stem, 1)
    ELSE IF Len(stem) = p1 /\ shortv(stem)
    THEN Append(stem, L.e)
    ELSE stem

\* Step 1b, on the row found: eed, eedly -> ee in R1; ed, edly, ing, ingly are
\* deleted when a vowel precedes them
Step_1b_row(w, p1, row) ==
    IF row = <<>> THEN w
    ELSE IF row[2] # <<>>
    THEN IF Len(w) - Len(row[1]) >= p1
         THEN ReplaceSuffix(w, row[1], row[2]) ELSE w
    ELSE IF \E i \in 1..(Len(w) - Len(row[1])) : w[i] \in Vowels
    THEN Step_1b_stem(DropLast(w, Len(row[1])), p1)
    ELSE w

\* Step 1b
Step_1b(w, p1) == Step_1b_row(w, p1, Among(w, Step_1b_among))

\* Step 1c: a final y or Y after a non-vowel that is not the first letter
\* becomes i
Step_1c(w) ==
    IF /\ Len(w) >= 3
       /\ w[Len(w)] \in {L.y, UpperY}
       /\ w[Len(w) - 1] \notin Vowels
    THEN [w EXCEPT ![Len(w)] = L.i]
    ELSE w

Step_2_among ==
    { <<<<L.t, L.i, L.o, L.n, L.a, L.l>>, <<L.t, L.i, L.o, L.n>>>>,
      <<<<L.e, L.n, L.c, L.i>>, <<L.e, L.n, L.c, L.e>>>>,
      <<<<L.a, L.n, L.c, L.i>>, <<L.a, L.n, L.c, L.e>>>>,
      <<<<L.a, L.b, L.l, L.i>>, <<L.a, L.b, L.l, L.e>>>>,
      <<<<L.e, L.n, L.t, L.l, L.i>>, <<L.e, L.n, L.t>>>>,
      <<<<L.i, L.z, L.e, L.r>>, <<L.i, L.z, L.e>>>>,
      <<<<L.i, L.z, L.a, L.t, L.i, L.o, L.n>>, <<L.i, L.z, L.e>>>>,
      <<<<L.a, L.t, L.i, L.o, L.n, L.a, L.l>>, <<L.a, L.t, L.e>>>>,
      <<<<L.a, L.t, L.i, L.o, L.n>>, <<L.a, L.t, L.e>>>>,
      <<<<L.a, L.t, L.o, L.r>>, <<L.a, L.t, L.e>>>>,
      <<<<L.a, L.l, L.i, L.s, L.m>>, <<L.a, L.l>>>>,
      <<<<L.a, L.l, L.i, L.t, L.i>>, <<L.a, L.l>>>>,
      <<<<L.a, L.l, L.l, L.i>>, <<L.a, L.l>>>>,
      <<<<L.f, L.u, L.l, L.n, L.e, L.s, L.s>>, <<L.f, L.u, L.l>>>>,
      <<<<L.o, L.u, L.s, L.l, L.i>>, <<L.o, L.u, L.s>>>>,
      <<<<L.o, L.u, L.s, L.n, L.e, L.s, L.s>>, <<L.o, L.u, L.s>>>>,
      <<<<L.i, L.v, L.e, L.n, L.e, L.s, L.s>>, <<L.i, L.v, L.e>>>>,
      <<<<L.i, L.v, L.i, L.t, L.i>>, <<L.i, L.v, L.e>>>>,
      <<<<L.b, L.i, L.l, L.i, L.t, L.i>>, <<L.b, L.l, L.e>>>>,
      <<<<L.b, L.l, L.i>>, <<L.b, L.l, L.e>>>>,
      <<<<L.o, L.g, L.i>>, <<L.o, L.g>>>>,
      <<<<L.f, L.u, L.l, L.l, L.i>>, <<L.f, L.u, L.l>>>>,
      <<<<L.l, L.e, L.s, L.s, L.l, L.i>>, <<L.l, L.e, L.s, L.s>>>>,
      <<<<L.l, L.i>>, <<>>>> }

\* Step 2, on the row found: a suffix that lies in R1 is replaced; ogi only
\* after l, li only after a letter of valid_LI
Step_2_row(w, p1, row, before) ==
    IF row = <<>> THEN w
    ELSE IF before < p1 THEN w
    ELSE IF row[1] = <<L.o, L.g, L.i>>
         THEN IF before >= 1 /\ w[before] = L.l
              THEN ReplaceSuffix(w, row[1], row[2]) ELSE w
    ELSE IF row[1] = <<L.l, L.i>>
         THEN IF before >= 1 /\ w[before] \in valid_LI
              THEN ReplaceSuffix(w, row[1], row[2]) ELSE w
    ELSE ReplaceSuffix(w, row[1], row[2])

\* the number of characters of w before the suffix of a row, 0 without a row
BeforeSuffix(w, row) == IF row = <<>> THEN 0 ELSE Len(w) - Len(row[1])

\* Step 2: the longest suffix of the table
Step_2_found(w, p1, row) == Step_2_row(w, p1, row, BeforeSuffix(w, row))

Step_2(w, p1) == Step_2_found(w, p1, Among(w, Step_2_among))

Step_3_among ==
    { <<<<L.t, L.i, L.o, L.n, L.a, L.l>>, <<L.t, L.i, L.o, L.n>>>>,
      <<<<L.a, L.t, L.i, L.o, L.n, L.a, L.l>>, <<L.a, L.t, L.e>>>>,
      <<<<L.a, L.l, L.i, L.z, L.e>>, <<L.a, L.l>>>>,
      <<<<L.i, L.c, L.a, L.t, L.e>>, <<L.i, L.c>>>>,
      <<<<L.i, L.c, L.i, L.t, L.i>>, <<L.i, L.c>>>>,
      <<<<L.i, L.c, L.a, L.l>>, <<L.i, L.c>>>>,
      <<<<L.f, L.u, L.l>>, <<>>>>, <<<<L.n, L.e, L.s, L.s>>, <<>>>>,
      <<<<L.a, L.t, L.i, L.v, L.e>>, <<>>>> }

\* Step 3, on the row found: a suffix that lies in R1 is replaced; ative only
\* in R2
Step_3_row(w, p1, p2, row, before) ==
    IF row = <<>> THEN w
    ELSE IF before < p1 THEN w
    ELSE IF row[1] = <<L.a, L.t, L.i, L.v, L.e>> /\ before < p2 THEN w
    ELSE ReplaceSuffix(w, row[1], row[2])

Step_3_found(w, p1, p2, row) ==
    Step_3_row(w, p1, p2, row, BeforeSuffix(w, row))

\* Step 3: the longest suffix of the table
Step_3(w, p1, p2) == Step_3_found(w, p1, p2, Among(w, Step_3_among))

Step_4_among ==
    { <<<<L.a, L.l>>, <<>>>>, <<<<L.a, L.n, L.c, L.e>>, <<>>>>, <<<<L.e, L.n, L.c, L.e>>, <<>>>>,
      <<<<L.e, L.r>>, <<>>>>, <<<<L.i, L.c>>, <<>>>>, <<<<L.a, L.b, L.l, L.e>>, <<>>>>,
      <<<<L.i, L.b, L.l, L.e>>, <<>>>>, <<<<L.a, L.n, L.t>>, <<>>>>,
      <<<<L.e, L.m, L.e, L.n, L.t>>, <<>>>>, <<<<L.m, L.e, L.n, L.t>>, <<>>>>,
      <<<<L.e, L.n, L.t>>, <<>>>>, <<<<L.i, L.s, L.m>>, <<>>>>, <<<<L.a, L.t, L.e>>, <<>>>>,
      <<<<L.i, L.t, L.i>>, <<>>>>, <<<<L.o, L.u, L.s>>, <<>>>>, <<<<L.i, L.v, L.e>>, <<>>>>,
      <<<<L.i, L.z, L.e>>, <<>>>>, <<<<L.i, L.o, L.n>>, <<>>>> }

\* Step 4, on the row found: a suffix that lies in R2 is deleted; ion only
\* after s or t
Step_4_row(w, p2, row, before) ==
    IF row = <<>> THEN w
    ELSE IF before < p2 THEN w
    ELSE IF row[1] = <<L.i, L.o, L.n>>
              /\ ~(before >= 1 /\ w[before] \in {L.s, L.t})
         THEN w
    ELSE SubSeq(w, 1, before)

Step_4_found(w, p2, row) == Step_4_row(w, p2, row, BeforeSuffix(w, row))

\* Step 4: the longest suffix of the table
Step_4(w, p2) == Step_4_found(w, p2, Among(w, Step_4_among))

\* Step 5: a final e is deleted in R2, or in R1 when not after a short
\* syllable; a final l is deleted in R2 after another l
Step_5(w, p1, p2) ==
    IF EndsWith(w, <<L.e>>)
    THEN IF \/ Len(w) - 1 >= p2
            \/ (Len(w) - 1 >= p1 /\ ~shortv(DropLast(w, 1)))
         THEN DropLast(w, 1) ELSE w
    ELSE IF EndsWith(w, <<L.l>>)
         THEN IF Len(w) - 1 >= p2 /\ EndsWith(w, <<L.l, L.l>>)
              THEN DropLast(w, 1) ELSE w
    ELSE w

\* Steps 1b to 5, on the word after Step 1a
StepsAfter1a(w, p1, p2) ==
    Step_5(Step_4(Step_3(Step_2(Step_1c(Step_1b(w, p1)), p1), p1, p2), p2),
           p1, p2)

\* Step 1a, then the other steps unless exception2 lists the word
StemMarked(w, p1, p2, after1a) ==
    IF after1a \in exception2 THEN after1a ELSE StepsAfter1a(after1a, p1, p2)

\* the regions are marked once, on the word after the prelude
StemPreluded(w) == StemMarked(w, MarkP1(w), MarkP2(w), Step_1a(w))

\* the exception1 stem of a word that it lists
Exception1Stem(w) == (CHOOSE row \in exception1 : row[1] = w)[2]

\* Stemmer::stem : exception1, or a word of fewer than three letters as it is,
\* or prelude, regions, steps and postlude
Stem(w) ==
    IF \E row \in exception1 : row[1] = w THEN Exception1Stem(w)
    ELSE IF Len(w) < 3 THEN w
    ELSE Postlude(StemPreluded(Prelude(w, 0)))

(***************************************************************************)
(* Tokenizer                                                               *)
(***************************************************************************)
\* Tokenizer::new : the English stop words
stop_words ==
    { <<L.a>>, <<L.a, L.n>>, <<L.a, L.n, L.d>>, <<L.a, L.r, L.e>>,
      <<L.a, L.s>>, <<L.a, L.t>>, <<L.b, L.e>>, <<L.b, L.y>>,
      <<L.f, L.o, L.r>>, <<L.f, L.r, L.o, L.m>>,
      <<L.h, L.a, L.s>>, <<L.h, L.e>>, <<L.i, L.n>>,
      <<L.i, L.s>>, <<L.i, L.t>>, <<L.i, L.t, L.s>>,
      <<L.o, L.f>>, <<L.o, L.n>>, <<L.t, L.h, L.a, L.t>>,
      <<L.t, L.h, L.e>>, <<L.t, L.o>>, <<L.w, L.a, L.s>>,
      <<L.w, L.e, L.r, L.e>>, <<L.w, L.i, L.l, L.l>>,
      <<L.w, L.i, L.t, L.h>> }

\* the locals of tokenize before the loop
TokenizeStart ==
    [tokens |-> <<>>, surface |-> <<>>, position |-> 0,
     current_word |-> <<>>, start_offset |-> 0]

\* tokens.push(Token { term: stemmed, position, offset }); position += 1
PushToken(st, end, stemmed) ==
    [st EXCEPT !.tokens = Append(@, [term |-> stemmed,
                                     position |-> st.position,
                                     offset |-> <<st.start_offset, end>>]),
               !.surface = Append(@, st.current_word),
               !.position = @ + 1]

\* the stem is neither a stop word nor empty
Kept(stemmed) == stemmed \notin stop_words /\ stemmed # <<>>

\* as ProcessStem, but the counter advances for a dropped word too
ProcessStemCountsDropped(st, end, stemmed) ==
    IF Kept(stemmed) THEN PushToken(st, end, stemmed)
    ELSE [st EXCEPT !.position = @ + 1]

\* push a Token unless the stem is a stop word or empty.  (After the loop the
\* counter is not read again.)
ProcessStem(st, end, stemmed) ==
    IF Kept(stemmed) THEN PushToken(st, end, stemmed) ELSE st

\* stem the accumulated word and push its Token
ProcessWord(st, end) == ProcessStem(st, end, Stem(st.current_word))

NextStartLosesIndex(idx, ch) == len_utf8(ch)

\* the start offset of the next word, after a delimiter at byte idx
NextStart(idx, ch) == idx + len_utf8(ch)

\* one iteration of the while loop, on the character ch at byte idx
ScanChar(st, idx, ch) ==
    IF is_alphabetic(ch)
    THEN [st EXCEPT !.current_word = Append(@, to_ascii_lowercase(ch))]
    ELSE IF is_whitespace(ch) \/ is_ascii_punctuation(ch)
    THEN [(IF st.current_word # <<>>
           THEN [ProcessWord(st, idx) EXCEPT !.current_word = <<>>]
           ELSE st)
          EXCEPT !.start_offset = NextStart(idx, ch)]
    ELSE st

RECURSIVE Scan(_, _)
\* the loop over the first i characters of t
Scan(t, i) ==
    IF i = 0 THEN TokenizeStart
    ELSE ScanChar(Scan(t, i - 1), ByteIndex(t, i), t[i])

\* after the loop: the last word is flushed at the end of input
TokenizeEnd(st, len) ==
    IF st.current_word # <<>> THEN ProcessWord(st, len) ELSE st

\* the whole of tokenize
TokenizeRun(t) == TokenizeEnd(Scan(t, Len(t)), ByteLen(t))

\* Tokenizer::tokenize
Tokenize(t) == TokenizeRun(t).tokens

(***************************************************************************)
(* Tokenizer runs: one call of tokenize on a text of at most MaxLen        *)
(* characters over TokChars.                                               *)
(***************************************************************************)
\* a, s, T, e with an acute accent (two bytes), the Devanagari letter a (three
\* bytes), the Tangut component U+187F8 (four bytes), the form feed, the
\* space, the double quote and the digit 1
TokChars == {L.a, L.s, 84, 233, 2309, 100344, 12, 32, 34, 49}

\* the texts of exactly n characters
TextsOfLen(n) == [1..n -> TokChars]

TokInit ==
    /\ pc = "start"
    /\ \E n \in 0..MaxLen : text \in TextsOfLen(n)
    /\ tokens = <<>>
    /\ surface = <<>>
    /\ built = FALSE
    /\ index = EmptyMap
    /\ doc_lengths = EmptyMap
    /\ avg_doc_length = [num |-> 0, den |-> 1]
    /\ total_docs = 0
    /\ history = <<>>
    /\ op = "none"
    /\ arg = <<>>
    /\ results = <<>>

TokenizeCall ==
    /\ pc = "start"
    /\ pc' = "done"
    /\ tokens' = Tokenize(text)
    /\ surface' = TokenizeRun(text).surface
    /\ UNCHANGED <<text, idxVars, callVars>>

TokNext == TokenizeCall

TokSpec == TokInit /\ [][TokNext]_vars

(***************************************************************************)
(* Tokenizer properties                                                    *)
(***************************************************************************)
RECURSIVE ByteSlice(_, _, _)
\* the characters of t that lie in the byte range [start, end)
ByteSlice(t, start, end) ==
    IF t = <<>> \/ end <= 0 THEN <<>>
    ELSE IF start <= 0
         THEN <<Head(t)>> \o ByteSlice(Tail(t), 0, end - len_utf8(Head(t)))
         ELSE ByteSlice(Tail(t), start - len_utf8(Head(t)),
                        end - len_utf8(Head(t)))

Lowercased(s) == [i \in 1..Len(s) |-> to_ascii_lowercase(s[i])]

\* C1: for every returned token, the text between its offsets, lower-cased,
\* is the word that was stemmed to give its term.
C1_OffsetRoundTrip ==
    pc = "done" =>
        \A i \in 1..Len(tokens) :
            Lowercased(ByteSlice(text, tokens[i].offset[1], tokens[i].offset[2]))
                = surface[i]

\* C2: every offset satisfies 0 <= start < end <= len(text) in bytes, and the
\* offsets of consecutive tokens ascend without overlapping.
C2_OffsetsInRange ==
    pc = "done" =>
        /\ \A i \in 1..Len(tokens) :
              /\ 0 <= tokens[i].offset[1]
              /\ tokens[i].offset[1] < tokens[i].offset[2]
              /\ tokens[i].offset[2] <= ByteLen(text)
        /\ \A i \in 1..(Len(tokens) - 1) :
              tokens[i].offset[2] <= tokens[i + 1].offset[1]

\* two tokens come back from a text with a four-byte character in it
C2_Witness ==
    /\ pc = "done"
    /\ Len(tokens) >= 2
    /\ \E i \in 1..Len(text) : len_utf8(text[i]) = 4

\* C3: the i-th returned token has position i - 1, whatever was dropped.
C3_PositionsSequential ==
    pc = "done" => \A i \in 1..Len(tokens) : tokens[i].position = i - 1

\* a stop word is dropped between two returned tokens, the last one flushed
\* at the end of input
C3_Witness ==
    /\ pc = "done"
    /\ Len(tokens) = 2
    /\ text = <<84, 32, L.a, 32, L.s>>

(***************************************************************************)
(* The texts, queries and terms of the index and ranker runs               *)
(***************************************************************************)
\* "The quick fox jumps"
Doc_quick_fox_jumps ==
    <<84, L.h, L.e, 32, L.q, L.u, L.i, L.c, L.k, 32, L.f, L.o, L.x, 32, L.j,
      L.u, L.m, L.p, L.s>>
\* "Fox jumps high"
Doc_fox_jumps_high ==
    <<70, L.o, L.x, 32, L.j, L.u, L.m, L.p, L.s, 32, L.h, L.i, L.g, L.h>>
\* "Slow turtle walks"
Doc_slow_turtle_walks ==
    <<83, L.l, L.o, L.w, 32, L.t, L.u, L.r, L.t, L.l, L.e, 32, L.w, L.a, L.l,
      L.k, L.s>>
\* "fox"
Doc_fox == <<L.f, L.o, L.x>>
\* "fox fox"
Doc_fox_fox == <<L.f, L.o, L.x, 32, L.f, L.o, L.x>>
\* ""
Doc_empty == <<>>
\* "fox jumps"
Query_fox_jumps == <<L.f, L.o, L.x, 32, L.j, L.u, L.m, L.p, L.s>>

Term_fox == <<L.f, L.o, L.x>>
Term_the == <<L.t, L.h, L.e>>

\* the documents: those of test_bm25_ranking, shorter ones with the same terms,
\* one that repeats a term, and the empty one
DocTexts == {Doc_quick_fox_jumps, Doc_fox_jumps_high, Doc_slow_turtle_walks,
             Query_fox_jumps, Doc_fox, Doc_fox_fox, Doc_empty}
Queries == {Query_fox_jumps, Doc_fox, Doc_empty}
ProbeTerms == {Term_fox, Term_the}

\* tokenize on the texts of these runs, tabulated
Tokenized == [t \in DocTexts \cup Queries |-> Tokenize(t)]
DocIds == {1, 2, 3}

(***************************************************************************)
(* InvertedIndex                                                           *)
(***************************************************************************)
\* the terms of a token sequence
TermsOf(toks) == {toks[i].term : i \in 1..Len(toks)}

\* term_positions[term] of index_document: the positions and offsets of the
\* tokens with that term, in emission order
PostingOf(doc_id, toks, term) ==
    LET mine == SelectSeq(toks, LAMBDA tok : tok.term = term) IN
    [doc_id |-> doc_id,
     positions |-> [i \in 1..Len(mine) |-> mine[i].position],
     offsets |-> [i \in 1..Len(mine) |-> mine[i].offset]]

\* the new posting goes to the front of the term's list
InsertPostingPrepends(idx, term, posting) ==
    [t \in DOMAIN idx \cup {term} |->
        IF t = term
        THEN <<posting>> \o (IF term \in DOMAIN idx THEN idx[term] ELSE <<>>)
        ELSE idx[t]]

\* the term's list is replaced by the new posting
InsertPostingOverwrites(idx, term, posting) ==
    [t \in DOMAIN idx \cup {term} |-> IF t = term THEN <<posting>> ELSE idx[t]]

\* self.index.entry(term).or_insert_with(Vec::new).push(posting)
InsertPosting(idx, term, posting) ==
    [t \in DOMAIN idx \cup {term} |->
        IF t = term
        THEN Append(IF term \in DOMAIN idx THEN idx[term] ELSE <<>>, posting)
        ELSE idx[t]]

\* InvertedIndex::index_document : one posting pushed per distinct term of the
\* document (each term has its own list, so the HashMap's iteration order
\* does not show)
IndexTokens(idx, doc_id, toks) ==
    [term \in DOMAIN idx \cup TermsOf(toks) |->
        IF term \in TermsOf(toks)
        THEN InsertPosting(idx, term, PostingOf(doc_id, toks, term))[term]
        ELSE idx[term]]

\* InvertedIndex::index_document, from the text
IndexDocument(idx, doc_id, t) == IndexTokens(idx, doc_id, Tokenized[t])

\* InvertedIndex::get_postings : Option<&Vec<Posting>>
GetPostings(idx, term) ==
    IF term \in DOMAIN idx THEN [some |-> TRUE, postings |-> idx[term]]
    ELSE [some |-> FALSE, postings |-> <<>>]

(***************************************************************************)
(* BM25Ranker.  avg_doc_length is held as the exact quotient num/den.  An  *)
(* f64 that comes out of the logarithm is held as an enclosure: a number   *)
(* mid, counted in units of Base^(-FracLimbs) and written as its limbs     *)
(* (its digits to the base Base, the least significant first), and a       *)
(* radius rad such that the f64 lies within rad units of mid.  Every step  *)
(* rounds down and adds what it may have lost to rad, so the order of two  *)
(* enclosures that do not meet is the order of the two f64 values.         *)
(***************************************************************************)
Base == 1000
FracLimbs == 4

\* BM25Ranker::new : k1 = 1.5 and b = 0.75, as quotients
k1 == [num |-> 3, den |-> 2]
b == [num |-> 3, den |-> 4]

RECURSIVE SumOver(_, _)
\* the sum of f over the set S of keys
SumOver(f, S) ==
    IF S = {} THEN 0
    ELSE LET x == CHOOSE y \in S : TRUE IN f[x] + SumOver(f, S \ {x})

\* the mean is taken over total_docs + 1 documents
UpdateAvgOffByOne(lengths, total, avg) ==
    IF total > 0
    THEN [num |-> SumOver(lengths, DOMAIN lengths), den |-> total + 1]
    ELSE avg

\* BM25Ranker::update_avg_doc_length
UpdateAvgDocLength(lengths, total, avg) ==
    IF total > 0
    THEN [num |-> SumOver(lengths, DOMAIN lengths), den |-> total]
    ELSE avg

\* the i-th limb of x, 0 above its last one
Limb(x, i) == IF i <= Len(x) THEN x[i] ELSE 0

RECURSIVE LimbsOf(_)
\* the limbs of the natural number n
LimbsOf(n) == IF n = 0 THEN <<>> ELSE <<n % Base>> \o LimbsOf(n \div Base)

RECURSIVE AddLimbs(_, _, _, _)
\* x + y, from limb i on, with the carry of the limbs below
AddLimbs(x, y, i, carry) ==
    IF i > Len(x) /\ i > Len(y) THEN LimbsOf(carry)
    ELSE <<(Limb(x, i) + Limb(y, i) + carry) % Base>>
         \o AddLimbs(x, y, i + 1, (Limb(x, i) + Limb(y, i) + carry) \div Base)

RECURSIVE MulLimbs(_, _, _, _)
\* x * k for a natural number k, from limb i on
MulLimbs(x, k, i, carry) ==
    IF i > Len(x) THEN LimbsOf(carry)
    ELSE <<(x[i] * k + carry) % Base>>
         \o MulLimbs(x, k, i + 1, (x[i] * k + carry) \div Base)

RECURSIVE DivLimbs(_, _, _, _)
\* x \div k for a natural number k >= 1: the limbs 1 to i of the quotient,
\* rem being what the limbs above i have left
DivLimbs(x, k, i, rem) ==
    IF i = 0 THEN <<>>
    ELSE Append(DivLimbs(x, k, i - 1, (rem * Base + x[i]) % k),
                (rem * Base + x[i]) \div k)

LongerLen(x, y) == IF Len(x) >= Len(y) THEN Len(x) ELSE Len(y)

\* x > y
GreaterLimbs(x, y) ==
    \E i \in 1..LongerLen(x, y) :
        /\ Limb(x, i) > Limb(y, i)
        /\ \A j \in (i + 1)..LongerLen(x, y) : Limb(x, j) = Limb(y, j)

\* x = 0
IsZero(x) == \A i \in 1..Len(x) : x[i] = 0

\* the enclosure of 0.0
Zero == [mid |-> <<>>, rad |-> 0]

\* the enclosure of the natural number n
FromInt(n) == [mid |-> [i \in 1..FracLimbs |-> 0] \o LimbsOf(n), rad |-> 0]

\* x + y
Plus(x, y) == [mid |-> AddLimbs(x.mid, y.mid, 1, 0), rad |-> x.rad + y.rad]

\* x * k for a natural number k
Times(x, k) == [mid |-> MulLimbs(x.mid, k, 1, 0), rad |-> x.rad * k]

\* x / k for a natural number k >= 1, rounded down: less than one unit is
\* lost on mid and less than one on rad
Over(x, k) ==
    [mid |-> DivLimbs(x.mid, k, Len(x.mid), 0), rad |-> (x.rad \div k) + 2]

\* an f64 operation returns the f64 nearest the exact result, well within one
\* unit of it
Rounded(x) == [x EXCEPT !.rad = @ + 1]

\* every value of x is greater than every value of y
Exceeds(x, y) ==
    GreaterLimbs(x.mid, AddLimbs(y.mid, LimbsOf(x.rad + y.rad), 1, 0))

RECURSIVE AtanhSeries(_, _, _, _)
\* power/n + power*z^2/(n + 2) + ... for z = num/den <= 1/3, until power has
\* no unit left; the terms left out come to less than twice the last power
AtanhSeries(power, num, den, n) ==
    IF IsZero(power.mid) THEN [mid |-> <<>>, rad |-> 2 * power.rad]
    ELSE Plus(Over(power, n),
              AtanhSeries(Over(Over(Times(Times(power, num), num), den), den),
                          num, den, n + 2))

\* atanh(num/den) = z + z^3/3 + z^5/5 + ... for z = num/den <= 1/3
Atanh(num, den) == AtanhSeries(Over(FromInt(num), den), num, den, 1)

\* ln 2 = 2 * atanh(1/3)
Ln2 == Times(Atanh(1, 3), 2)

RECURSIVE Doublings(_, _)
\* how often q can be doubled and stay at most p, for p >= q > 0
Doublings(p, q) == IF p >= 2 * q THEN 1 + Doublings(p, 2 * q) ELSE 0

\* ln(p/q) for p >= q > 0 : with k the doublings and r = q * 2^k, it is
\* k * ln 2 + ln(p/r) = k * ln 2 + 2 * atanh((p - r) / (p + r)), where
\* (p - r) / (p + r) < 1/3 as p < 2r
LnReduced(p, q) ==
    Plus(Times(Ln2, Doublings(p, q)),
         Times(Atanh(p - q * 2 ^ Doublings(p, q), p + q * 2 ^ Doublings(p, q)), 2))

\* the quotients p/q a run of at most MaxCalls documents takes logarithms of
LnArguments ==
    {pq \in (1..(2 * MaxCalls + 2)) \X (1..(2 * MaxCalls + 2)) : pq[1] >= pq[2]}

\* LnReduced, tabulated on LnArguments: the pairs <<argument, logarithm>>
LnTable == {<<pq, LnReduced(pq[1], pq[2])>> : pq \in LnArguments}

\* the size of f64::ln of p/q for p >= q > 0
Ln(p, q) ==
    IF <<p, q>> \in LnArguments
    THEN (CHOOSE row \in LnTable : row[1] = <<p, q>>)[2]
    ELSE LnReduced(p, q)

\* f64::ln of p/q for p > 0 and q > 0 : whether it is positive, which is
\* whether p > q, and its size
SignedLn(p, q) ==
    IF p > q THEN [positive |-> TRUE, size |-> Ln(p, q)]
    ELSE [positive |-> FALSE, size |-> Ln(q, p)]

\* the number of postings of a term, 0 when it is not indexed
DocFrequency(idx, term) ==
    IF term \in DOMAIN idx THEN Len(idx[term]) ELSE 0

\* the idf without the + 1 inside the logarithm:
\* ln((N - n + 0.5) / (n + 0.5)), which is ln((2N - 2n + 1) / (2n + 1)); it
\* is negative as soon as half the documents hold the term
ComputeIdfWithoutPlusOne(idx, total, term) ==
    IF total > DocFrequency(idx, term)
    THEN SignedLn(2 * total - 2 * DocFrequency(idx, term) + 1,
                  2 * DocFrequency(idx, term) + 1)
    ELSE SignedLn(1, 2 * DocFrequency(idx, term) + 1)

\* BM25Ranker::compute_idf : ln((N - n + 0.5) / (n + 0.5) + 1), which is
\* ln((2N + 2) / (2n + 1))
ComputeIdf(idx, total, term) ==
    SignedLn(2 * total + 2, 2 * DocFrequency(idx, term) + 1)

\* postings.iter().find(|p| p.doc_id == doc_id) : the index of the first
\* posting of the document, 0 when there is none
FindPosting(postings, doc_id) ==
    LET hits == {i \in 1..Len(postings) : postings[i].doc_id = doc_id} IN
    IF hits = {} THEN 0 ELSE CHOOSE i \in hits : \A j \in hits : i <= j

\* the doc_lengths entry of a document, 0 when it has none (unwrap_or(&0))
DocLength(lengths, doc_id) ==
    IF doc_id \in DOMAIN lengths THEN lengths[doc_id] ELSE 0

\* tf of a term in a document: the positions of its first posting
TermFrequency(idx, doc_id, term) ==
    IF term \notin DOMAIN idx \/ FindPosting(idx[term], doc_id) = 0 THEN 0
    ELSE Len(idx[term][FindPosting(idx[term], doc_id)].positions)

\* the length normalisation is turned round: doc_length / avg_doc_length
\* becomes avg_doc_length / doc_length
TermScoreInverted(idf, tf, doc_length, avg) ==
    LET numerator == tf * (k1.num + k1.den) * b.den * doc_length * avg.den
        denominator == tf * k1.den * b.den * doc_length * avg.den
                       + k1.num * ((b.den - b.num) * doc_length * avg.den
                                   + b.num * avg.num)
    IN [positive |-> idf.positive,
        size |-> Rounded(Over(Times(idf.size, numerator), denominator))]

\* idf * numerator / denominator for one term, with
\*   numerator   = tf * (k1 + 1)
\*   denominator = tf + k1 * (1 - b + b * doc_length / avg_doc_length)
\* both multiplied by k1.den * b.den * avg.num
TermScore(idf, tf, doc_length, avg) ==
    LET numerator == tf * (k1.num + k1.den) * b.den * avg.num
        denominator == tf * k1.den * b.den * avg.num
                       + k1.num * ((b.den - b.num) * avg.num
                                   + b.num * doc_length * avg.den)
    IN [positive |-> idf.positive,
        size |-> Rounded(Over(Times(idf.size, numerator), denominator))]

\* let mut score = 0.0 : no term added yet.  The positive terms and the
\* negative terms are summed apart, pos and neg, each as an enclosure.
NoScore == [has_pos |-> FALSE, has_neg |-> FALSE, pos |-> Zero, neg |-> Zero]

\* score += idf * numerator / denominator
AddTerm(sum, term_score) ==
    IF term_score.positive
    THEN [sum EXCEPT !.has_pos = TRUE, !.pos = Rounded(Plus(@, term_score.size))]
    ELSE [sum EXCEPT !.has_neg = TRUE, !.neg = Rounded(Plus(@, term_score.size))]

\* the body of the loop of compute_score for one term with frequency tf, 0
\* when the document has no posting for it.  With avg_doc_length 0.0 the
\* quotient doc_length / avg_doc_length is infinite and the term is 0.0.
AddTermOf(sum, idx, lengths, avg, total, doc_id, term, tf) ==
    IF tf = 0 \/ avg.num = 0 THEN sum
    ELSE AddTerm(sum, TermScore(ComputeIdf(idx, total, term), tf,
                                DocLength(lengths, doc_id), avg))

RECURSIVE ScoreSum(_, _, _, _, _, _)
\* one turn of the loop of compute_score, for term, and the turns for the
\* other terms
ScoreSumWith(idx, lengths, avg, total, doc_id, terms, term) ==
    AddTermOf(ScoreSum(idx, lengths, avg, total, doc_id, terms \ {term}),
              idx, lengths, avg, total, doc_id, term,
              TermFrequency(idx, doc_id, term))

\* the loop of compute_score over the query terms
ScoreSum(idx, lengths, avg, total, doc_id, terms) ==
    IF terms = {} THEN NoScore
    ELSE ScoreSumWith(idx, lengths, avg, total, doc_id, terms,
                      CHOOSE t \in terms : TRUE)

\* BM25Ranker::compute_score.  With idf and avg_doc_length as they are in one
\* state, the f64 it returns is a function of the document's length and of its
\* term frequencies, which are kept with the sum: two scores of one rank call
\* with the same doc_length and tf are the same f64.
ComputeScore(idx, lengths, avg, total, doc_id, terms) ==
    [doc_length |-> DocLength(lengths, doc_id),
     tf |-> [t \in terms |-> TermFrequency(idx, doc_id, t)],
     sum |-> IF DocLength(lengths, doc_id) = 0 THEN NoScore
             ELSE ScoreSum(idx, lengths, avg, total, doc_id, terms)]

\* the score is 0.0 : no term was added
ScoreIsZero(s) == ~s.sum.has_pos /\ ~s.sum.has_neg

\* s1 == s2, for two scores of one rank call
ScoreEqual(s1, s2) ==
    \/ ScoreIsZero(s1) /\ ScoreIsZero(s2)
    \/ s1.doc_length = s2.doc_length /\ s1.tf = s2.tf

\* s1 > s2, for two scores of one rank call, decided by the enclosures
ScoreGreater(s1, s2) ==
    /\ ~ScoreEqual(s1, s2)
    /\ Exceeds(Plus(s1.sum.pos, s2.sum.neg), Plus(s2.sum.pos, s1.sum.neg))

\* s1 >= s2, for two scores of one rank call
ScoreAtLeast(s1, s2) == ScoreEqual(s1, s2) \/ ScoreGreater(s1, s2)

\* score > 0.0 : the sign of a logarithm is exact, so a sum of positive terms
\* alone is positive whatever its size; a sum of both signs is decided by the
\* enclosures
ScorePositive(s) ==
    /\ s.sum.has_pos
    /\ (s.sum.has_neg => Exceeds(s.sum.pos, s.sum.neg))

\* !(score > 0.0), decided likewise
ScoreNotPositive(s) ==
    \/ ~s.sum.has_pos
    \/ s.sum.has_neg /\ Exceeds(s.sum.neg, s.sum.pos)

\* candidate_docs of rank: the documents with a posting for some query term
CandidateDocs(idx, terms) ==
    UNION {{idx[t][i].doc_id : i \in 1..Len(idx[t])} : t \in terms \cap DOMAIN idx}

\* the sequences that enumerate the set S once each
Orderings(S) ==
    {s \in [1..Cardinality(S) -> S] : \A i, j \in 1..Cardinality(S) : s[i] = s[j] => i = j}

\* sorted by score, descending: no result has a greater score than one before
SortedDescending(r) ==
    \A i, j \in 1..Len(r) : i < j => ~ScoreGreater(r[j][2], r[i][2])

\* the candidates of rank with their scores
Scored(idx, lengths, avg, total, unique_terms) ==
    {<<d, ComputeScore(idx, lengths, avg, total, d, unique_terms)>> :
        d \in CandidateDocs(idx, unique_terms)}

\* .filter(|&(_, score)| score > 0.0) : what it may keep.  A score whose sign
\* the enclosures leave open, a sum of both signs that comes to nothing within
\* their radius, may fall on either side.
KeptSets(scored) ==
    {kept \in SUBSET {r \in scored : ~ScoreNotPositive(r[2])} :
        \A r \in scored : ScorePositive(r[2]) => r \in kept}

\* BM25Ranker::rank : every sequence it can return.  candidate_docs is a
\* HashSet, whose iteration order is arbitrary; the stable sort by score
\* keeps that order among equal scores.
RankTerms(idx, lengths, avg, total, unique_terms) ==
    UNION {{r \in Orderings(kept) : SortedDescending(r)} :
              kept \in KeptSets(Scored(idx, lengths, avg, total, unique_terms))}

\* BM25Ranker::rank, from the query text
RankResults(idx, lengths, avg, total, query) ==
    RankTerms(idx, lengths, avg, total, TermsOf(Tokenized[query]))

(***************************************************************************)
(* Index and ranker runs                                                   *)
(***************************************************************************)
Init ==
    /\ pc = "start"
    /\ text = <<>>
    /\ tokens = <<>>
    /\ surface = <<>>
    /\ built = FALSE
    /\ index = EmptyMap
    /\ doc_lengths = EmptyMap
    /\ avg_doc_length = [num |-> 0, den |-> 1]
    /\ total_docs = 0
    /\ history = <<>>
    /\ op = "none"
    /\ arg = <<>>
    /\ results = <<>>

\* InvertedIndex::index_document, on the index before a ranker owns it
InvertedIndex_index_document(doc_id, t) ==
    /\ ~built
    /\ Len(history) < MaxCalls
    /\ index' = IndexDocument(index, doc_id, t)
    /\ history' = Append(history, [doc_id |-> doc_id, text |-> t, via |-> "index"])
    /\ op' = "index_document"
    /\ arg' = <<>>
    /\ results' = <<>>
    /\ UNCHANGED <<tokVars, built, doc_lengths, avg_doc_length, total_docs>>

\* BM25Ranker::new(tokenizer, index) : the ranker takes the index as it is,
\* with whatever was indexed into it directly, and starts its own statistics
\* from nothing
BM25Ranker_new ==
    /\ ~built
    /\ built' = TRUE
    /\ doc_lengths' = EmptyMap
    /\ avg_doc_length' = [num |-> 0, den |-> 1]
    /\ total_docs' = 0
    /\ op' = "new"
    /\ arg' = <<>>
    /\ results' = <<>>
    /\ UNCHANGED <<tokVars, index, history>>

\* BM25Ranker::index_document
BM25Ranker_index_document(doc_id, t) ==
    /\ built
    /\ Len(history) < MaxCalls
    /\ LET doc_length == Len(Tokenized[t])
           lengths == [d \in DOMAIN doc_lengths \cup {doc_id} |->
                          IF d = doc_id THEN doc_length ELSE doc_lengths[d]]
       IN /\ doc_lengths' = lengths
          /\ total_docs' = total_docs + 1
          /\ avg_doc_length' =
                UpdateAvgDocLength(lengths, total_docs + 1, avg_doc_length)
    /\ index' = IndexDocument(index, doc_id, t)
    /\ history' = Append(history, [doc_id |-> doc_id, text |-> t, via |-> "ranker"])
    /\ op' = "index_document"
    /\ arg' = <<>>
    /\ results' = <<>>
    /\ UNCHANGED <<tokVars, built>>

\* InvertedIndex::get_postings
InvertedIndex_get_postings(term) ==
    /\ ~built
    /\ op' = "get_postings"
    /\ arg' = term
    /\ results' = GetPostings(index, term)
    /\ UNCHANGED <<tokVars, idxVars>>

\* InvertedIndex::terms : the keys, in no order
InvertedIndex_terms ==
    /\ ~built
    /\ op' = "terms"
    /\ arg' = <<>>
    /\ results' = DOMAIN index
    /\ UNCHANGED <<tokVars, idxVars>>

\* BM25Ranker::rank
BM25Ranker_rank(query) ==
    /\ built
    /\ op' = "rank"
    /\ arg' = query
    /\ results' \in RankResults(index, doc_lengths, avg_doc_length, total_docs, query)
    /\ UNCHANGED <<tokVars, idxVars>>

Next ==
    \/ \E d \in DocIds, t \in DocTexts : InvertedIndex_index_document(d, t)
    \/ BM25Ranker_new
    \/ \E d \in DocIds, t \in DocTexts : BM25Ranker_index_document(d, t)
    \/ \E term \in ProbeTerms : InvertedIndex_get_postings(term)
    \/ InvertedIndex_terms
    \/ \E q \in Queries : BM25Ranker_rank(q)

Spec == Init /\ [][Next]_vars

(***************************************************************************)
(* Index and ranker properties                                             *)
(***************************************************************************)
\* no document id was indexed twice
DistinctIds ==
    \A i, j \in 1..Len(history) : history[i].doc_id = history[j].doc_id => i = j

\* the index_document calls made on the ranker
RankerCalls == SelectSeq(history, LAMBDA h : h.via = "ranker")

\* the ranker was built over an empty index: every document went through
\* BM25Ranker::index_document
OnlyThroughRanker == RankerCalls = history

\* no document id was indexed twice through the ranker
DistinctRankerIds ==
    \A i, j \in 1..Len(RankerCalls) :
        RankerCalls[i].doc_id = RankerCalls[j].doc_id => i = j

\* the query terms of a rank call
QueryTerms(query) == TermsOf(Tokenized[query])

\* the score rank computes for a document, in the current state
ScoreOf(doc_id, query) ==
    ComputeScore(index, doc_lengths, avg_doc_length, total_docs, doc_id,
                 QueryTerms(query))

\* two documents have the same term frequency for every query term
SameTf(d1, d2, query) ==
    \A t \in QueryTerms(query) :
        TermFrequency(index, d1, t) = TermFrequency(index, d2, t)

Abs(x) == IF x < 0 THEN 0 - x ELSE x

\* den * |doc_length - avg_doc_length|
DistanceFromAvg(doc_id) ==
    Abs(DocLength(doc_lengths, doc_id) * avg_doc_length.den - avg_doc_length.num)

\* the enclosures settle every comparison rank makes: each candidate's score
\* is positive or is not, and two candidates' scores are equal or one is the
\* greater
ScoresDecided ==
    built =>
        \A q \in Queries :
            \A r1, r2 \in Scored(index, doc_lengths, avg_doc_length, total_docs,
                                 QueryTerms(q)) :
                /\ ScorePositive(r1[2]) \/ ScoreNotPositive(r1[2])
                /\ \/ ScoreEqual(r1[2], r2[2])
                   \/ ScoreGreater(r1[2], r2[2])
                   \/ ScoreGreater(r2[2], r1[2])

\* the index_document calls of test_bm25_ranking
Scenario3 ==
    <<[doc_id |-> 1, text |-> Doc_quick_fox_jumps, via |-> "ranker"],
      [doc_id |-> 2, text |-> Doc_fox_jumps_high, via |-> "ranker"],
      [doc_id |-> 3, text |-> Doc_slow_turtle_walks, via |-> "ranker"]>>

\* C4: after documents 1, 2 and 3 of the scenario, rank("fox jumps") returns
\* document 2 and then document 1, document 2 with the strictly greater score.
C4_Scenario3Order ==
    (history = Scenario3 /\ op = "rank" /\ arg = Query_fox_jumps) =>
        /\ Len(results) = 2
        /\ results[1][1] = 2
        /\ results[2][1] = 1
        /\ ScoreGreater(results[1][2], results[2][2])

\* C5 as stated: on a corpus indexed through the ranker, of two candidates with
\* the same term frequencies and different lengths, the one whose length is
\* nearer avg_doc_length scores at least as high as the other.  (Stated for
\* distinct document ids, the use the indexer is meant for.)
C5_CloserToAvgScoresHigher ==
    (op = "rank" /\ OnlyThroughRanker /\ DistinctIds) =>
        \A d1, d2 \in CandidateDocs(index, QueryTerms(arg)) :
            ( /\ SameTf(d1, d2, arg)
              /\ DocLength(doc_lengths, d1) # DocLength(doc_lengths, d2)
              /\ DistanceFromAvg(d1) < DistanceFromAvg(d2) )
            => ScoreAtLeast(ScoreOf(d1, arg), ScoreOf(d2, arg))

\* C5 amended: on a corpus indexed through the ranker, of two candidates with
\* the same term frequencies, the shorter one (of length at least 1) scores at
\* least as high as the longer one.
C5_ShorterScoresHigher ==
    (op = "rank" /\ OnlyThroughRanker) =>
        \A d1, d2 \in CandidateDocs(index, QueryTerms(arg)) :
            ( /\ SameTf(d1, d2, arg)
              /\ 1 <= DocLength(doc_lengths, d1)
              /\ DocLength(doc_lengths, d1) < DocLength(doc_lengths, d2) )
            => ScoreAtLeast(ScoreOf(d1, arg), ScoreOf(d2, arg))

\* rank("fox") over a one-token and a three-token document that both hold
\* "fox" once: the shorter one comes first, though it is farther from the mean
C5_Witness ==
    /\ op = "rank"
    /\ OnlyThroughRanker
    /\ arg = Doc_fox
    /\ Len(results) >= 2
    /\ DocLength(doc_lengths, results[1][1]) = 1
    /\ DocLength(doc_lengths, results[2][1]) = 3
    /\ DistanceFromAvg(results[2][1]) < DistanceFromAvg(results[1][1])
    /\ ScoreGreater(results[1][2], results[2][2])

\* C6: rank returns its results sorted by score, descending, and two rank
\* calls with the same query on the same state return the same sequence.
C6_RankDeterministic ==
    [][ /\ (op' = "rank" => SortedDescending(results'))
        /\ (op = "rank" /\ op' = "rank" /\ arg' = arg => results' = results)
      ]_vars

\* the terms of every text of the runs, and the probed ones
AllTerms == UNION {TermsOf(Tokenized[t]) : t \in DocTexts} \cup ProbeTerms

\* the ids of the indexed documents whose tokens hold term, in call order
DocsWithTerm(term) ==
    LET calls == SelectSeq(history, LAMBDA h : term \in TermsOf(Tokenized[h.text]))
    IN [i \in 1..Len(calls) |-> calls[i].doc_id]

\* C7: with distinct document ids, get_postings(t) holds one Posting for each
\* indexed document that contains t, in the order the documents were indexed,
\* and none for other documents; it returns nothing when no document has t.
C7_PostingsPerDocument ==
    DistinctIds =>
        \A t \in AllTerms :
            LET got == GetPostings(index, t) IN
            /\ got.some <=> DocsWithTerm(t) # <<>>
            /\ [i \in 1..Len(got.postings) |-> got.postings[i].doc_id]
                   = DocsWithTerm(t)

\* "fox" has the postings of documents 3 and 1, in that order, and a third
\* indexed document has none
C7_Witness ==
    /\ DistinctIds
    /\ Len(history) = 3
    /\ Term_fox \in DOMAIN index
    /\ Len(index[Term_fox]) = 2
    /\ index[Term_fox][1].doc_id = 3
    /\ index[Term_fox][2].doc_id = 1

IsPrefix(s1, s2) == Len(s1) <= Len(s2) /\ SubSeq(s2, 1, Len(s1)) = s1

\* C8: every step keeps each term and keeps its earlier postings list as a
\* prefix of the new one; get_postings, terms and rank leave the index and
\* the corpus statistics as they were.
C8_AppendOnly ==
    [][ /\ \A t \in DOMAIN index :
              t \in DOMAIN index' /\ IsPrefix(index[t], index'[t])
        /\ (op' \in {"get_postings", "terms", "rank"} =>
              UNCHANGED <<index, doc_lengths, avg_doc_length, total_docs>>)
      ]_vars

\* a ranker's index_document has just pushed a second posting for some term
C8_Witness ==
    /\ built
    /\ op = "index_document"
    /\ \E t \in DOMAIN index : Len(index[t]) >= 2

\* C9 as stated: after any index_document calls on a ranker, total_docs is the
\* number of entries of doc_lengths and avg_doc_length is their mean.
C9_StatsConsistent ==
    (built /\ RankerCalls # <<>>) =>
        /\ total_docs = Cardinality(DOMAIN doc_lengths)
        /\ avg_doc_length.num * Cardinality(DOMAIN doc_lengths)
              = SumOver(doc_lengths, DOMAIN doc_lengths) * avg_doc_length.den

\* C9 amended: the same, when the document ids of the calls on the ranker are
\* distinct.
C9_StatsConsistentDistinctIds ==
    (built /\ RankerCalls # <<>> /\ DistinctRankerIds) =>
        /\ total_docs = Cardinality(DOMAIN doc_lengths)
        /\ avg_doc_length.num * Cardinality(DOMAIN doc_lengths)
              = SumOver(doc_lengths, DOMAIN doc_lengths) * avg_doc_length.den

\* three documents of lengths 3, 1 and 0 under distinct ids: the mean is 4/3
C9_Witness ==
    /\ built
    /\ DistinctRankerIds
    /\ Len(RankerCalls) = 3
    /\ total_docs = 3
    /\ avg_doc_length = [num |-> 4, den |-> 3]

\* C10: on a ranker built over an empty index and filled under distinct ids,
\* rank returns, once each, the documents that have a posting for some query
\* term, and no others.
C10_RankReturnsMatching ==
    (op = "rank" /\ OnlyThroughRanker /\ DistinctIds) =>
        /\ {results[i][1] : i \in 1..Len(results)}
              = CandidateDocs(index, QueryTerms(arg))
        /\ Len(results) = Cardinality(CandidateDocs(index, QueryTerms(arg)))

\* rank("fox") when every one of three documents holds "fox" (n_t = total_docs,
\* the least idf) returns all three
C10_Witness ==
    /\ op = "rank"
    /\ arg = Doc_fox
    /\ OnlyThroughRanker
    /\ DistinctIds
    /\ total_docs = 3
    /\ DocFrequency(index, Term_fox) = 3
    /\ Len(results) = 3

====
